---- MODULE Spec2Model ----
(***************************************************************************)
(* Model of the metrics pipeline of performance_gui.py: the poll scheduler *)
(* of MainWindow (_tick, _on_network_reply, _on_request_success,           *)
(* _on_request_failed, _open_settings), sanitize_metrics, the smoothing    *)
(* pass _apply_service_metrics and the gauges it drives.                   *)
(*                                                                         *)
(* Numbers.  Python floats are modelled as fixed-point integers in         *)
(* hundredths (Scale), tagged with their kind so that the non-finite       *)
(* floats keep Python's behaviour:                                         *)
(*    [k |-> "num", v |-> n]   the finite float n/Scale                    *)
(*    [k |-> "nan"], [k |-> "pinf"], [k |-> "ninf"]   nan, +inf, -inf      *)
(*    [k |-> "none"]           Python's None                               *)
(* A quotient is truncated to a hundredth; binary rounding below that is   *)
(* not modelled.                                                           *)
(***************************************************************************)
EXTENDS Integers, FiniteSets, Sequences, TLC

VARIABLES
    req_in_flight,        \* MainWindow._req_in_flight
    outstanding,          \* requests handed to QNetworkAccessManager and not yet answered
    settings,             \* MainWindow.settings (interval_ms, update_epsilon)
    base_interval_ms,     \* MainWindow._base_interval_ms
    current_interval_ms,  \* MainWindow._current_interval_ms
    timer_interval,       \* interval the QTimer was last started with
    last_metrics,         \* MainWindow._last_metrics
    display_cache,        \* MainWindow._display_cache (the four load entries)
    gauge,                \* CircularIndicator._value of the four indicators
    gpu_color,            \* TemperatureCircularIndicator.color of the GPU gauge
    status,               \* PerformancePanel.status_label
    outcome,              \* history: how the last handler run ended
    polls,                \* history: number of replies that carried a well-formed payload
    ticks_skipped,        \* history: ticks that fired since the pending request was issued
    svcIn,                \* input of the sanitizer run under SanSpec
    sanOut                \* result of the sanitizer run under SanSpec

vars == <<req_in_flight, outstanding, settings, base_interval_ms,
          current_interval_ms, timer_interval, last_metrics, display_cache,
          gauge, gpu_color, status, outcome, polls, ticks_skipped, svcIn, sanOut>>

\* the program state proper (everything but the history variables)
progVars == <<req_in_flight, outstanding, settings, base_interval_ms,
              current_interval_ms, timer_interval, last_metrics, display_cache,
              gauge, gpu_color, status>>

-----------------------------------------------------------------------------
(* Bounds of the model *)

MaxPolls == 2          \* well-formed payloads the service delivers in one behaviour
MaxTicksSkipped == 2   \* ticks counted while one request is pending
MaxPasses == 6         \* polls of a service that answers with one fixed body

-----------------------------------------------------------------------------
(* Floats *)

Scale == 100

None == [k |-> "none", v |-> 0]
Num(x) == [k |-> "num", v |-> x]
NaN == [k |-> "nan", v |-> 0]
PInf == [k |-> "pinf", v |-> 0]
NInf == [k |-> "ninf", v |-> 0]

FloatKinds == {"num", "nan", "pinf", "ninf"}

\* isinstance(x, (int, float)) on a sanitized field: a float or None
IsNumber(x) == x.k \in FloatKinds

\* integer quotient truncated toward zero, as int() and a rounded-off float do
TruncDiv(a, b) == IF a >= 0 THEN a \div b ELSE -((-a) \div b)

AbsInt(x) == IF x < 0 THEN -x ELSE x

\* Python's a < b on floats: every comparison with nan is False
FloatLt(a, b) ==
    CASE a.k = "nan" \/ b.k = "nan" -> FALSE
      [] a.k = "ninf" -> b.k # "ninf"
      [] a.k = "pinf" -> FALSE
      [] OTHER -> (b.k = "pinf") \/ (b.k = "num" /\ a.v < b.v)

\* Python's min(a, b): keeps a unless b < a
PyMin(a, b) == IF FloatLt(b, a) THEN b ELSE a

\* Python's max(a, b): keeps a unless b > a
PyMax(a, b) == IF FloatLt(a, b) THEN b ELSE a

\* max(0.0, min(100.0, x))
ClampPct(x) == PyMax(Num(0), PyMin(Num(100 * Scale), x))

\* (u / t) * 100.0 for t > 0
PctOf(u, t) ==
    CASE u.k = "nan" -> NaN
      [] u.k = "pinf" -> IF t.k = "pinf" THEN NaN ELSE PInf
      [] u.k = "ninf" -> IF t.k = "pinf" THEN NaN ELSE NInf
      [] OTHER -> IF t.k = "pinf" THEN Num(0)
                  ELSE Num(TruncDiv(u.v * 100 * Scale, t.v))

-----------------------------------------------------------------------------
(* Raw JSON payloads *)

\* a JSON member: absent, null, a non-numeric value, a numeric string or a number
RawField(k, v) == [k |-> k, v |-> v]
Missing == RawField("missing", 0)

\* fnum: float(x), None when float() raises
fnum(x) ==
    CASE x.k \in FloatKinds -> [k |-> x.k, v |-> x.v]
      [] x.k = "numstr" -> Num(x.v)
      [] OTHER -> None

\* a channel of the payload: absent key, null, a non-object value, or an object
LoadChan(k, load, temp_c) == [k |-> k, load |-> load, temp_c |-> temp_c]
MemChan(k, used_pct, used_gb, total_gb) ==
    [k |-> k, used_pct |-> used_pct, used_gb |-> used_gb, total_gb |-> total_gb]

NoLoadChan == LoadChan("missing", Missing, Missing)
NoMemChan == MemChan("missing", Missing, Missing, Missing)

Payload(k, cpu, ram, gpu, vram) ==
    [k |-> k, cpu |-> cpu, ram |-> ram, gpu |-> gpu, vram |-> vram]

\* svc.get(name, {}) if isinstance(svc, dict) else {}
ChanOf(svc, name, empty) ==
    IF svc.k = "dict"
    THEN (IF svc[name].k = "missing" THEN [empty EXCEPT !.k = "dict"] ELSE svc[name])
    ELSE [empty EXCEPT !.k = "dict"]

\* chan.get(...) raises AttributeError unless chan is a dict
HasGet(chan) == chan.k = "dict"

-----------------------------------------------------------------------------
(* sanitize_metrics *)

AbsentLoad == [load |-> None, temp_c |-> None]
AbsentMem == [used_pct |-> None, used_gb |-> None, total_gb |-> None]
AllAbsent == [cpu |-> AbsentLoad, ram |-> AbsentMem, gpu |-> AbsentLoad, vram |-> AbsentMem]

SanitizeLoad(chan) ==
    LET load == fnum(chan.load)
        temp == fnum(chan.temp_c)
    IN  [load |-> IF load # None THEN ClampPct(load) ELSE None, temp_c |-> temp]

\* variant: the clamp is applied before used_pct is derived
SanitizeMemClampFirst(chan) ==
    LET u == fnum(chan.used_gb)
        t == fnum(chan.total_gb)
        p == fnum(chan.used_pct)
        p1 == IF p # None THEN ClampPct(p) ELSE None
    IN  [used_pct |-> IF p1 = None /\ u # None /\ t # None /\ FloatLt(Num(0), t)
                      THEN PctOf(u, t) ELSE p1,
         used_gb |-> u, total_gb |-> t]

\* variant: a derivable used_pct replaces the one supplied
SanitizeMemDerivedWins(chan) ==
    LET u == fnum(chan.used_gb)
        t == fnum(chan.total_gb)
        p == fnum(chan.used_pct)
        p2 == IF u # None /\ t # None /\ FloatLt(Num(0), t)
              THEN PctOf(u, t) ELSE p
    IN  [used_pct |-> IF p2 # None THEN ClampPct(p2) ELSE None,
         used_gb |-> u, total_gb |-> t]

SanitizeMem(chan) ==
    LET u == fnum(chan.used_gb)
        t == fnum(chan.total_gb)
        p == fnum(chan.used_pct)
        p2 == IF p = None /\ u # None /\ t # None /\ FloatLt(Num(0), t)
              THEN PctOf(u, t) ELSE p
    IN  [used_pct |-> IF p2 # None THEN ClampPct(p2) ELSE None,
         used_gb |-> u, total_gb |-> t]

\* the result: raised = TRUE when an AttributeError leaves the function
sanitize_metrics(svc) ==
    LET cpu == ChanOf(svc, "cpu", NoLoadChan)
        ram == ChanOf(svc, "ram", NoMemChan)
        gpu == ChanOf(svc, "gpu", NoLoadChan)
        vram == ChanOf(svc, "vram", NoMemChan)
    IN  IF HasGet(cpu) /\ HasGet(ram) /\ HasGet(gpu) /\ HasGet(vram)
        THEN [raised |-> FALSE,
              out |-> [cpu |-> SanitizeLoad(cpu), ram |-> SanitizeMem(ram),
                       gpu |-> SanitizeLoad(gpu), vram |-> SanitizeMem(vram)]]
        ELSE [raised |-> TRUE, out |-> AllAbsent]

-----------------------------------------------------------------------------
(* Gauges: CircularIndicator and TemperatureCircularIndicator *)

\* COLOR_PALETTE["accent_blue"] #3B82F6, the GPU gauge's colour at construction
accent_blue == <<59, 130, 246>>
\* COLOR_PALETTE["text_secondary"] #9AA4B2, "gris si inconnu"
text_secondary == <<154, 164, 178>>

\* TemperatureCircularIndicator.max_temp of the GPU gauge: max(1.0, 90.0)
max_temp == 90 * Scale

\* CircularIndicator.set_value: max(0.0, min(100.0, float(value)))
set_value(value) == ClampPct(Num(value)).v

\* int(a + b * k) of _color_from_temperature, the channel being num / den in
\* exact arithmetic.  The doubles 2/3 and 1/3 are both below the fractions and
\* every product and quotient is rounded, so a channel whose exact value is a
\* whole number n may be held as a double just under n, which int() takes to
\* n - 1 (under).  With k = 0.0 the arithmetic is exact.  With ratio = 1.0 the
\* value does not depend on t: k = (1.0 - 2/3) / (1/3) is 1.0000000000000002
\* and 158 + (68 - 158) * k is 67.99999999999999.
IntOfChannel(num, den, x, under) ==
    IF num % den = 0 /\ x # 0 /\ 3 * x # 2 * max_temp /\ (under \/ x = max_temp)
    THEN num \div den - 1
    ELSE num \div den

\* TemperatureCircularIndicator._color_from_temperature, t a float.
\* ratio = max(0.0, min(1.0, t / max_temp)) is kept as x = ratio * max_temp.
color_from_temperature(t, under) ==
    LET x == PyMax(Num(0), PyMin(Num(max_temp), t)).v
    IN  IF 3 * x < 2 * max_temp
        THEN <<IntOfChannel(34 * 2 * max_temp + (245 - 34) * 3 * x, 2 * max_temp, x, under),
               IntOfChannel(197 * 2 * max_temp - (197 - 158) * 3 * x, 2 * max_temp, x, under),
               IntOfChannel(94 * 2 * max_temp - (94 - 11) * 3 * x, 2 * max_temp, x, under)>>
        ELSE <<245,
               IntOfChannel(158 * max_temp - (158 - 68) * (3 * x - 2 * max_temp),
                            max_temp, x, under),
               11>>

\* the outcomes of int() to consider for the GPU temperatures a handler may
\* colour the gauge from: both where a channel is a whole number, one otherwise
Unders(temps) ==
    IF \E t \in temps :
          IsNumber(t) /\ color_from_temperature(t, TRUE) # color_from_temperature(t, FALSE)
    THEN BOOLEAN
    ELSE {FALSE}

\* TemperatureCircularIndicator.set_stats: the colour it leaves
set_stats_color(temp_c, under) ==
    IF temp_c # None THEN color_from_temperature(temp_c, under) ELSE text_secondary

-----------------------------------------------------------------------------
(* MainWindow: the object's fields as a record, so that a handler that calls *)
(* another is the composition of the two                                    *)

NoMetrics == [has |-> FALSE, m |-> AllAbsent]
SomeMetrics(svc) == [has |-> TRUE, m |-> svc]

ZeroLoads == [cpu |-> 0, ram |-> 0, gpu |-> 0, vram |-> 0]

\* self._max_interval_ms = 10_000
max_interval_ms == 10000

MaxInt(a, b) == IF a > b THEN a ELSE b
MinInt(a, b) == IF a < b THEN a ELSE b

self ==
    [req_in_flight |-> req_in_flight, settings |-> settings,
     base_interval_ms |-> base_interval_ms,
     current_interval_ms |-> current_interval_ms,
     timer_interval |-> timer_interval, last_metrics |-> last_metrics,
     display_cache |-> display_cache, gauge |-> gauge,
     gpu_color |-> gpu_color, status |-> status]

\* MainWindow.__init__ with the settings AppSettings.load returned
NewMainWindow(s) ==
    [req_in_flight |-> FALSE, settings |-> s,
     base_interval_ms |-> MaxInt(250, s.interval_ms),
     current_interval_ms |-> MaxInt(250, s.interval_ms),
     timer_interval |-> MaxInt(250, s.interval_ms),
     last_metrics |-> NoMetrics,
     display_cache |-> ZeroLoads, gauge |-> ZeroLoads,
     gpu_color |-> accent_blue, status |-> "unknown"]

\* variant: a smoothing factor above 1
SmoothOvershoot(cur, val) == cur + TruncDiv((val - cur) * 135, 100)

\* variant: the step is taken away from the raw value
SmoothAway(cur, val) == cur - TruncDiv((val - cur) * 35, 100)

\* alpha = 0.35: cur + (val - cur) * alpha
Smooth(cur, val) == cur + TruncDiv((val - cur) * 35, 100)

\* variant: the gate opens at a difference of exactly eps
CrossesOrEqual(new_val, shown, eps) == AbsInt(new_val - shown) >= eps

\* the dead-band gate: abs(new_val - indicator._value) > eps
Crosses(new_val, shown, eps) == AbsInt(new_val - shown) > eps

\* int(round(t)) raises ValueError on nan and OverflowError on an infinity
TextRaises(temp_c) == IsNumber(temp_c) /\ temp_c.k # "num"

\* one load channel of _apply_service_metrics (CPU, RAM, VRAM): the smoothed
\* value goes to the gauge and to the cache when it crosses the dead-band
ApplyLoad(w, ch, load) ==
    IF IsNumber(load)
    THEN LET new_val == Smooth(w.display_cache[ch], load.v)
         IN  IF Crosses(new_val, w.gauge[ch], w.settings.update_epsilon)
             THEN [w EXCEPT !.gauge[ch] = set_value(new_val),
                            !.display_cache[ch] = new_val]
             ELSE w
    ELSE w

\* the GPU block of _apply_service_metrics
ApplyGpu(w, gpu, under) ==
    IF IsNumber(gpu.load)
    THEN LET gl_val == Smooth(w.display_cache.gpu, gpu.load.v)
         IN  IF Crosses(gl_val, w.gauge.gpu, w.settings.update_epsilon)
             THEN [w EXCEPT !.gauge.gpu = set_value(gl_val),
                            !.gpu_color = set_stats_color(gpu.temp_c, under),
                            !.display_cache.gpu = gl_val]
             ELSE IF IsNumber(gpu.temp_c)
                  THEN [w EXCEPT !.gpu_color = color_from_temperature(gpu.temp_c, under)]
                  ELSE w
    ELSE w

\* _apply_service_metrics: CPU, RAM, GPU, VRAM in that order; formatting the CPU
\* or the GPU temperature raises on a non-finite float and ends the pass there
apply_service_metrics(w, svc, under) ==
    LET w1 == ApplyLoad(w, "cpu", svc.cpu.load)
        w2 == ApplyLoad(w1, "ram", svc.ram.used_pct)
        w3 == ApplyGpu(w2, svc.gpu, under)
        w4 == ApplyLoad(w3, "vram", svc.vram.used_pct)
    IN  IF TextRaises(svc.cpu.temp_c) THEN [w |-> w1, raised |-> TRUE]
        ELSE IF TextRaises(svc.gpu.temp_c) THEN [w |-> w3, raised |-> TRUE]
        ELSE [w |-> w4, raised |-> FALSE]

\* _clear_metrics
clear_metrics(w) ==
    [w EXCEPT !.display_cache = ZeroLoads,
              !.gauge = [cpu |-> set_value(0), ram |-> set_value(0),
                         gpu |-> set_value(0), vram |-> set_value(0)],
              !.gpu_color = set_stats_color(None, FALSE)]

\* the backoff step of _on_request_failed
Backoff(w) ==
    MinInt(max_interval_ms, MaxInt(w.base_interval_ms, w.current_interval_ms * 2))

\* variant: a failure clears the gauges whether or not a snapshot is held
on_request_failed_clears(w, under) ==
    LET w1 == clear_metrics([w EXCEPT !.status = "offline"])
    IN  [w |-> [w1 EXCEPT !.current_interval_ms = Backoff(w1),
                          !.timer_interval = Backoff(w1)],
         raised |-> FALSE, cleared |-> TRUE]

\* _on_request_failed: an exception of the smoothing pass leaves before the
\* backoff.  cleared records that _clear_metrics was called.
on_request_failed(w, under) ==
    LET w1 == [w EXCEPT !.status = "offline"]
        a == IF w1.last_metrics.has
             THEN apply_service_metrics(w1, w1.last_metrics.m, under)
             ELSE [w |-> clear_metrics(w1), raised |-> FALSE]
    IN  IF a.raised
        THEN [w |-> a.w, raised |-> TRUE, cleared |-> FALSE]
        ELSE [w |-> [a.w EXCEPT !.current_interval_ms = Backoff(a.w),
                                !.timer_interval = Backoff(a.w)],
              raised |-> FALSE, cleared |-> ~w1.last_metrics.has]

\* _on_request_success
on_request_success(w, svc, under) ==
    LET w1 == [w EXCEPT !.status = "online", !.last_metrics = SomeMetrics(svc)]
        w2 == IF w1.current_interval_ms # w1.base_interval_ms
              THEN [w1 EXCEPT !.current_interval_ms = w1.base_interval_ms,
                              !.timer_interval = w1.base_interval_ms]
              ELSE w1
    IN  apply_service_metrics(w2, svc, under)

\* a reply: its error flag and its body (unparseable, or the parsed payload)
Reply(err, json_ok, svc) == [err |-> err, json_ok |-> json_ok, svc |-> svc]

\* how a handler run ended.  op: the handler and its branch; escaped: an exception
\* left the handler; cleared: _clear_metrics ran; snap: the snapshot handed to
\* _on_request_success, if any
Outcome(op, escaped, cleared, snap) ==
    [op |-> op, escaped |-> escaped, cleared |-> cleared, snap |-> snap]

\* _on_network_reply.  op: "net_error", "parse_error" (json.loads or
\* sanitize_metrics raised), "apply_raised" (the pass of _on_request_success
\* raised and the except branch ran), "success"
on_network_reply(w, reply, under) ==
    LET w0 == [w EXCEPT !.req_in_flight = FALSE]
        san == sanitize_metrics(reply.svc)
        ok == on_request_success(w0, san.out, under)
    IN  IF reply.err
        THEN LET f == on_request_failed(w0, under)
             IN  [w |-> f.w, out |-> Outcome("net_error", f.raised, f.cleared, AllAbsent)]
        ELSE IF ~reply.json_ok \/ san.raised
        THEN LET f == on_request_failed(w0, under)
             IN  [w |-> f.w, out |-> Outcome("parse_error", f.raised, f.cleared, AllAbsent)]
        ELSE IF ok.raised
        THEN LET f == on_request_failed(ok.w, under)
             IN  [w |-> f.w, out |-> Outcome("apply_raised", f.raised, f.cleared, san.out)]
        ELSE [w |-> ok.w, out |-> Outcome("success", FALSE, FALSE, san.out)]

-----------------------------------------------------------------------------
(* Inputs *)

Null == RawField("null", 0)
Text == RawField("text", 0)
Number(x) == RawField("num", x)

\* {"cpu": {"load": 55.2, "temp_c": 60}}
CpuOnlyBody ==
    Payload("dict", LoadChan("dict", Number(5520), Number(6000)),
            NoMemChan, NoLoadChan, NoMemChan)

\* a complete payload; ram.used_pct is left to be derived from 6.0 / 16.0, and
\* the GPU is at 80.5 degrees, where no channel of the ramp is a whole number
FullBody ==
    Payload("dict", LoadChan("dict", Number(10000), Number(7000)),
            MemChan("dict", Missing, Number(600), Number(1600)),
            LoadChan("dict", Number(5000), Number(8050)),
            MemChan("dict", Number(2000), Null, Text))

\* {"cpu": {"load": 20, "temp_c": "nan"}, "gpu": {"load": 90}}
NanTempBody ==
    Payload("dict", LoadChan("dict", Number(2000), RawField("nan", 0)),
            NoMemChan, LoadChan("dict", Number(9000), Missing), NoMemChan)

\* {"cpu": null}
NullChanBody ==
    Payload("dict", LoadChan("null", Missing, Missing), NoMemChan, NoLoadChan, NoMemChan)

\* a body that is valid JSON but no object, e.g. []
NonDictBody == Payload("other", NoLoadChan, NoMemChan, NoLoadChan, NoMemChan)

\* the replies the service and the transport can produce
WellFormed == {CpuOnlyBody, FullBody, NanTempBody, NonDictBody}
Replies ==
    {Reply(TRUE, FALSE, NonDictBody), Reply(FALSE, FALSE, NonDictBody),
     Reply(FALSE, TRUE, NullChanBody)}
    \cup {Reply(FALSE, TRUE, b) : b \in WellFormed}

AppSettings(interval_ms, update_epsilon) ==
    [interval_ms |-> interval_ms, update_epsilon |-> update_epsilon]

\* settings AppSettings.load can return at start-up (QSettings and the
\* environment are not range-checked); update_epsilon defaults to 0.8
StartSettings == {AppSettings(i, 80) : i \in {100, 1000, 60000}}

\* settings SettingsDialog.accept can build: spin_interval 250..60000
DialogSettings == {AppSettings(i, e) : i \in {250, 1000, 60000}, e \in {80}}

-----------------------------------------------------------------------------
(* Actions *)

SetSelf(w) ==
    /\ req_in_flight' = w.req_in_flight
    /\ settings' = w.settings
    /\ base_interval_ms' = w.base_interval_ms
    /\ current_interval_ms' = w.current_interval_ms
    /\ timer_interval' = w.timer_interval
    /\ last_metrics' = w.last_metrics
    /\ display_cache' = w.display_cache
    /\ gauge' = w.gauge
    /\ gpu_color' = w.gpu_color
    /\ status' = w.status

\* _tick while a request is in flight: the early return
TickInFlight ==
    /\ req_in_flight
    /\ ticks_skipped' = MinInt(MaxTicksSkipped, ticks_skipped + 1)
    /\ outcome' = Outcome("tick_skipped", FALSE, FALSE, AllAbsent)
    /\ UNCHANGED <<progVars, polls, svcIn, sanOut>>

\* variant: _tick without the early return
TickSendUnguarded ==
    /\ req_in_flight' = TRUE
    /\ outstanding' = outstanding + 1
    /\ ticks_skipped' = 0
    /\ outcome' = Outcome("issued", FALSE, FALSE, AllAbsent)
    /\ UNCHANGED <<settings, base_interval_ms, current_interval_ms, timer_interval,
                   last_metrics, display_cache, gauge, gpu_color, status,
                   polls, svcIn, sanOut>>

\* _tick, no request in flight, nam.get(req) returns
TickSend ==
    /\ ~req_in_flight
    /\ req_in_flight' = TRUE
    /\ outstanding' = outstanding + 1
    /\ ticks_skipped' = 0
    /\ outcome' = Outcome("issued", FALSE, FALSE, AllAbsent)
    /\ UNCHANGED <<settings, base_interval_ms, current_interval_ms, timer_interval,
                   last_metrics, display_cache, gauge, gpu_color, status,
                   polls, svcIn, sanOut>>

\* _tick, an exception in the try block: building the request raises before the
\* flag is set (at_get = FALSE), or nam.get raises after it is set (at_get = TRUE)
TickRaise(at_get) ==
    /\ ~req_in_flight
    /\ \E under \in Unders({last_metrics.m.gpu.temp_c}) :
       \E f \in {on_request_failed([self EXCEPT !.req_in_flight = at_get], under)} :
          /\ SetSelf(f.w)
          /\ outcome' = Outcome("tick_raised", f.raised, f.cleared, AllAbsent)
    /\ UNCHANGED <<outstanding, polls, ticks_skipped, svcIn, sanOut>>

\* _on_network_reply for the pending request
NetworkReply(reply) ==
    /\ outstanding > 0
    /\ (~reply.err /\ reply.json_ok /\ ~sanitize_metrics(reply.svc).raised)
          => polls < MaxPolls
    /\ \E under \in Unders({last_metrics.m.gpu.temp_c,
                               sanitize_metrics(reply.svc).out.gpu.temp_c}) :
       \E r \in {on_network_reply(self, reply, under)} :
          /\ SetSelf(r.w)
          /\ outcome' = r.out
          /\ polls' = IF r.out.op \in {"success", "apply_raised"}
                      THEN polls + 1 ELSE polls
    /\ outstanding' = outstanding - 1
    /\ ticks_skipped' = 0
    /\ UNCHANGED <<svcIn, sanOut>>

\* variant: the commit leaves the backed-off interval in place
open_settings_keeps_backoff(s) ==
    /\ settings' = s
    /\ base_interval_ms' = MaxInt(250, s.interval_ms)
    /\ outcome' = Outcome("settings", FALSE, FALSE, AllAbsent)
    /\ UNCHANGED <<req_in_flight, outstanding, current_interval_ms, timer_interval,
                   last_metrics, display_cache, gauge, gpu_color, status, polls,
                   ticks_skipped, svcIn, sanOut>>

\* _open_settings, the dialog accepted with settings s
open_settings(s) ==
    /\ settings' = s
    /\ base_interval_ms' = MaxInt(250, s.interval_ms)
    /\ current_interval_ms' = MaxInt(250, s.interval_ms)
    /\ timer_interval' = MaxInt(250, s.interval_ms)
    /\ outcome' = Outcome("settings", FALSE, FALSE, AllAbsent)
    /\ UNCHANGED <<req_in_flight, outstanding, last_metrics, display_cache, gauge,
                   gpu_color, status, polls, ticks_skipped, svcIn, sanOut>>

\* the state MainWindow.__init__ leaves
StartsAs(w) ==
    /\ req_in_flight = w.req_in_flight
    /\ settings = w.settings
    /\ base_interval_ms = w.base_interval_ms
    /\ current_interval_ms = w.current_interval_ms
    /\ timer_interval = w.timer_interval
    /\ last_metrics = w.last_metrics
    /\ display_cache = w.display_cache
    /\ gauge = w.gauge
    /\ gpu_color = w.gpu_color
    /\ status = w.status

NoSanRun == [done |-> FALSE, raised |-> FALSE, out |-> AllAbsent]

Init ==
    /\ \E s \in StartSettings : StartsAs(NewMainWindow(s))
    /\ outstanding = 0
    /\ outcome = Outcome("none", FALSE, FALSE, AllAbsent)
    /\ polls = 0
    /\ ticks_skipped = 0
    /\ svcIn = NonDictBody
    /\ sanOut = NoSanRun

Next ==
    \/ TickInFlight
    \/ TickSend
    \/ \E at_get \in BOOLEAN : TickRaise(at_get)
    \/ \E reply \in Replies : NetworkReply(reply)
    \/ \E s \in DialogSettings : open_settings(s)

Spec == Init /\ [][Next]_vars

-----------------------------------------------------------------------------
(* sanitize_metrics on its own: one run on an input drawn from SanInputs *)

PctFields ==
    {Missing, Null, Text, RawField("numstr", 5520), Number(-500), Number(0),
     Number(5520), Number(15000), RawField("nan", 0), RawField("pinf", 0),
     RawField("ninf", 0)}
GbFields ==
    {Missing, Null, Number(-300), Number(0), Number(600), Number(1600),
     RawField("nan", 0), RawField("pinf", 0), RawField("ninf", 0)}
TempFields == {Missing, Number(6000), RawField("nan", 0)}

\* a channel that is null, or a value without .get (a number, a string, a list)
BadLoadChans == {LoadChan(k, Missing, Missing) : k \in {"null", "scalar"}}
BadMemChans == {MemChan(k, Missing, Missing, Missing) : k \in {"null", "scalar"}}

LoadChans ==
    {NoLoadChan} \cup BadLoadChans
    \cup {LoadChan("dict", l, t) : l \in PctFields, t \in TempFields}
MemChans ==
    {NoMemChan} \cup BadMemChans
    \cup {MemChan("dict", p, u, t) : p \in PctFields, u \in GbFields, t \in GbFields}

\* the channels that accompany the one under study
FewLoadChans == {NoLoadChan, LoadChan("null", Missing, Missing),
                 LoadChan("dict", Number(5520), Number(6000))}
FewMemChans == {NoMemChan, MemChan("scalar", Missing, Missing, Missing),
                MemChan("dict", Missing, Number(600), Number(1600))}

SanInputs ==
    {NonDictBody}
    \cup {Payload("dict", c, m, NoLoadChan, NoMemChan) : c \in LoadChans, m \in FewMemChans}
    \cup {Payload("dict", c, m, NoLoadChan, NoMemChan) : c \in FewLoadChans, m \in MemChans}
    \cup {Payload("dict", NoLoadChan, NoMemChan, c, m) : c \in LoadChans, m \in FewMemChans}
    \cup {Payload("dict", NoLoadChan, NoMemChan, c, m) : c \in FewLoadChans, m \in MemChans}

SanRun ==
    /\ ~sanOut.done
    /\ sanOut' = [done |-> TRUE, raised |-> sanitize_metrics(svcIn).raised,
                  out |-> sanitize_metrics(svcIn).out]
    /\ UNCHANGED <<progVars, outcome, polls, ticks_skipped, svcIn>>

SanInit ==
    /\ StartsAs(NewMainWindow(AppSettings(1000, 80)))
    /\ outstanding = 0
    /\ outcome = Outcome("none", FALSE, FALSE, AllAbsent)
    /\ polls = 0
    /\ ticks_skipped = 0
    /\ svcIn \in SanInputs
    /\ sanOut = NoSanRun

SanNext == SanRun

SanSpec == SanInit /\ [][SanNext]_vars

-----------------------------------------------------------------------------
(* The colour ramp on its own: _color_from_temperature applied to the GPU  *)
(* temperature of a payload                                               *)

\* -10.00 to 110.00 degrees in steps of a quarter, and the non-finite floats
RampTemps ==
    {Number(25 * i - 1000) : i \in 0..480}
    \cup {RawField("nan", 0), RawField("pinf", 0), RawField("ninf", 0)}

RampBodies ==
    {Payload("dict", NoLoadChan, NoMemChan, LoadChan("dict", Missing, t), NoMemChan) :
        t \in RampTemps}

\* gpu_indicator.color = gpu_indicator._color_from_temperature(float(gpu_temp))
RampRun ==
    /\ outcome.op = "none"
    /\ \E under \in Unders({fnum(svcIn.gpu.temp_c)}) :
          gpu_color' = color_from_temperature(fnum(svcIn.gpu.temp_c), under)
    /\ outcome' = Outcome("ramp", FALSE, FALSE, AllAbsent)
    /\ UNCHANGED <<req_in_flight, outstanding, settings, base_interval_ms,
                   current_interval_ms, timer_interval, last_metrics, display_cache,
                   gauge, status, polls, ticks_skipped, svcIn, sanOut>>

RampInit ==
    /\ StartsAs(NewMainWindow(AppSettings(1000, 80)))
    /\ outstanding = 0
    /\ outcome = Outcome("none", FALSE, FALSE, AllAbsent)
    /\ polls = 0
    /\ ticks_skipped = 0
    /\ svcIn \in RampBodies
    /\ sanOut = NoSanRun

RampNext == RampRun

RampSpec == RampInit /\ [][RampNext]_vars

-----------------------------------------------------------------------------
(* The window polling a service that answers every request with the same   *)
(* body: the smoothing pass fed a fixed raw value                          *)

\* cpu.load: absent, 2.0, 2.03, 20.0, 50.0, 100.0
PassCpuChans ==
    {NoLoadChan} \cup
    {LoadChan("dict", Number(v), Missing) : v \in {200, 203, 2000, 5000, 10000}}

\* gpu.load: absent, 2.03, 50.0; gpu.temp_c: absent, 30.0, 80.5, 90.0
PassGpuChans ==
    {NoLoadChan} \cup
    {LoadChan("dict", l, t) : l \in {Missing, Number(203), Number(5000)},
                              t \in {Missing, Number(3000), Number(8050),
                                     Number(max_temp)}}

PassBodies ==
    {Payload("dict", c, NoMemChan, g, NoMemChan) : c \in PassCpuChans, g \in PassGpuChans}

\* update_epsilon: 0.7, the default 0.8, and 10.0, the top of the dialog's range
PassSettings == {AppSettings(1000, e) : e \in {70, 80, 1000}}

\* _on_network_reply for the pending request, the body being svcIn once more
FixedReply ==
    /\ outstanding > 0
    /\ polls < MaxPasses
    /\ \E under \in Unders({last_metrics.m.gpu.temp_c,
                               sanitize_metrics(svcIn).out.gpu.temp_c}) :
       \E r \in {on_network_reply(self, Reply(FALSE, TRUE, svcIn), under)} :
          /\ SetSelf(r.w)
          /\ outcome' = r.out
    /\ polls' = polls + 1
    /\ outstanding' = outstanding - 1
    /\ ticks_skipped' = 0
    /\ UNCHANGED <<svcIn, sanOut>>

PassInit ==
    /\ \E s \in PassSettings : StartsAs(NewMainWindow(s))
    /\ outstanding = 0
    /\ outcome = Outcome("none", FALSE, FALSE, AllAbsent)
    /\ polls = 0
    /\ ticks_skipped = 0
    /\ svcIn \in PassBodies
    /\ sanOut = NoSanRun

PassNext ==
    \/ TickSend
    \/ FixedReply

PassSpec == PassInit /\ [][PassNext]_vars

-----------------------------------------------------------------------------
(* Properties *)

Channels == {"cpu", "ram", "gpu", "vram"}

\* the load a snapshot carries for a channel
LoadOf(m, ch) ==
    CASE ch = "cpu" -> m.cpu.load
      [] ch = "ram" -> m.ram.used_pct
      [] ch = "gpu" -> m.gpu.load
      [] OTHER -> m.vram.used_pct

\* the ways a fetch attempt fails: an error reply, a body that does not parse
\* or sanitize, an exception while the request is being issued
FailedPollOps == {"net_error", "parse_error", "tick_raised"}

\* a reply whose body parsed and sanitized, so that _on_request_success ran
GoodPollOps == {"success", "apply_raised"}

\* new is old, or lies strictly nearer to target on old's side of it
Toward(old, new, target) ==
    \/ new = old
    \/ old < new /\ new <= target
    \/ target <= new /\ new < old

\* C1: at most one fetch is outstanding in every reachable state; a request is
\* issued only from a state with no request in flight, and a tick that fires
\* while one is in flight leaves the whole program state as it was.
C1_AtMostOneFetch ==
    /\ [](outstanding <= 1)
    /\ [][outstanding' > outstanding => (~req_in_flight /\ outstanding = 0)]_vars
    /\ [][(req_in_flight /\ outcome'.op = "tick_skipped") => UNCHANGED progVars]_vars

\* a request is pending and two ticks have fired since it was issued
C1_Witness == req_in_flight /\ outstanding = 1 /\ ticks_skipped >= 2

\* C2: once _on_request_success has run, no later handler run calls
\* _clear_metrics, and no later failed poll brings a gauge or a cache entry
\* that was not zero to zero.
C2_NoResetAfterSuccess ==
    /\ [][outcome'.cleared => (polls = 0 /\ ~last_metrics.has)]_vars
    /\ [][(polls > 0 /\ outcome'.op \in FailedPollOps) =>
            \A ch \in Channels :
                /\ gauge'[ch] = 0 => gauge[ch] = 0
                /\ display_cache'[ch] = 0 => display_cache[ch] = 0]_vars

\* a poll failed after a success and the CPU gauge still shows a value
C2_Witness ==
    /\ polls > 0 /\ outcome.op = "net_error" /\ ~outcome.cleared
    /\ gauge.cpu > 0

\* C3 (as claimed): every failed poll leaves the interval at twice its value,
\* capped at the maximum interval.
C3_FailureDoubles ==
    [][outcome'.op \in FailedPollOps =>
         current_interval_ms' = MinInt(max_interval_ms, 2 * current_interval_ms)]_vars

\* C4 (as claimed): the current interval lies between the base interval and
\* the maximum interval in every reachable state.
C4_IntervalBounded ==
    base_interval_ms <= current_interval_ms /\ current_interval_ms <= max_interval_ms

\* C5 (as claimed): a failed poll after a successful one leaves every gauge
\* as it was and sets the status offline (so that only successful passes
\* change a gauge).  Stated for an error reply whose handler runs to its end.
C5_FailureHoldsGauges ==
    [][(polls > 0 /\ outcome'.op = "net_error" /\ ~outcome'.escaped) =>
         (gauge' = gauge /\ status' = "offline")]_vars

\* C5 (amended): a failed poll after a successful one sets the status offline
\* and re-applies the last-known-good snapshot: every gauge stays or moves
\* toward its channel's last-known-good load, never past it, and a channel the
\* snapshot lacks keeps its value; gauges change only in a step that ends a
\* fetch attempt, never on a skipped tick, on issuing a request or on a
\* settings commit.
C5_FailureMovesTowardLastGood ==
    /\ [][(polls > 0 /\ outcome'.op \in FailedPollOps) =>
            /\ status' = "offline"
            /\ last_metrics' = last_metrics
            /\ \A ch \in Channels :
                 IF IsNumber(LoadOf(last_metrics.m, ch))
                 THEN Toward(gauge[ch], gauge'[ch], LoadOf(last_metrics.m, ch).v)
                 ELSE gauge'[ch] = gauge[ch]]_vars
    /\ [][gauge' # gauge => outcome'.op \in (FailedPollOps \cup GoodPollOps)]_vars

\* after {"cpu": {"load": 55.2}} was shown as 19.32, a failed poll moved
\* the CPU gauge to 31.87
C5_Witness ==
    /\ polls = 1 /\ outcome.op = "net_error" /\ status = "offline"
    /\ LoadOf(last_metrics.m, "cpu") = Num(5520)
    /\ gauge.cpu = 3187

\* C6 (as claimed): after every reply whose payload parsed and sanitized the
\* scheduler is idle, the snapshot is the last-known-good one, the interval is
\* the base interval and the status is online.
C6_AfterSuccess ==
    [][outcome'.op \in GoodPollOps =>
         /\ ~req_in_flight'
         /\ last_metrics' = SomeMetrics(outcome'.snap)
         /\ current_interval_ms' = base_interval_ms'
         /\ status' = "online"]_vars

\* C7 (as claimed): no reachable state leaves the scheduler unable to poll
\* again: whenever the in-flight flag is set, a request is outstanding whose
\* completion clears it.
C7_CanPollAgain == req_in_flight => outstanding > 0

\* C8: a settings commit sets the base and the current interval to
\* max(250, configured interval), restarts the timer with it, issues no request
\* and leaves the in-flight flag and the last-known-good snapshot alone.
C8_SettingsResetInterval ==
    [][outcome'.op = "settings" =>
         /\ base_interval_ms' = MaxInt(250, settings'.interval_ms)
         /\ current_interval_ms' = base_interval_ms'
         /\ timer_interval' = current_interval_ms'
         /\ outstanding' = outstanding
         /\ req_in_flight' = req_in_flight
         /\ last_metrics' = last_metrics]_vars

\* a commit made while a request was pending and a snapshot was held
C8_Witness ==
    /\ outcome.op = "settings" /\ req_in_flight /\ outstanding = 1
    /\ last_metrics.has /\ current_interval_ms = 250

\* C9 (as claimed): sanitize_metrics returns a snapshot for every input, and a
\* channel that is null or no object comes out with all its fields absent.
C9_SanitizeNeverFails ==
    sanOut.done =>
        /\ ~sanOut.raised
        /\ (svcIn.cpu.k \in {"null", "scalar"} => sanOut.out.cpu = AbsentLoad)
        /\ (svcIn.ram.k \in {"null", "scalar"} => sanOut.out.ram = AbsentMem)
        /\ (svcIn.gpu.k \in {"null", "scalar"} => sanOut.out.gpu = AbsentLoad)
        /\ (svcIn.vram.k \in {"null", "scalar"} => sanOut.out.vram = AbsentMem)

\* a percentage is absent or a finite number within [0, 100]
PctInRange(p) == p = None \/ (p.k = "num" /\ 0 <= p.v /\ p.v <= 100 * Scale)

\* C10: every snapshot sanitize_metrics returns has each percentage field
\* absent or within [0, 100].
C10_PercentagesInRange ==
    (sanOut.done /\ ~sanOut.raised) =>
        \A ch \in Channels : PctInRange(LoadOf(sanOut.out, ch))

\* used_pct derived from used_gb = 16 > total_gb = 6 comes out as 100
C10_Witness ==
    /\ sanOut.done /\ ~sanOut.raised
    /\ svcIn.ram.used_pct = Missing
    /\ svcIn.ram.used_gb = Number(1600) /\ svcIn.ram.total_gb = Number(600)
    /\ sanOut.out.ram.used_pct = Num(100 * Scale)

\* C11: in every reachable state, whatever successes, failures, absent channels
\* and settings commits led to it, the gauge value and the smoothing-cache value
\* of each of the four channels lie within 0..100 (in hundredths: 0..10000).
C11_DisplayedWithinRange ==
    \A ch \in Channels :
        /\ 0 <= gauge[ch] /\ gauge[ch] <= 100 * Scale
        /\ 0 <= display_cache[ch] /\ display_cache[ch] <= 100 * Scale

\* a failure pass after a full snapshot: the CPU gauge has climbed twice toward
\* the top of the range (35.0, then 57.75) while the offline status is shown
C11_Witness ==
    /\ outcome.op = "net_error" /\ status = "offline"
    /\ last_metrics.has /\ last_metrics.m.cpu.load = Num(100 * Scale)
    /\ gauge.cpu = 5775 /\ display_cache.cpu = 5775
    /\ gauge.ram > 0 /\ gauge.gpu > 0 /\ gauge.vram > 0

\* C12: every way a fetch attempt can end (a successful reply, an error reply,
\* a reply whose body fails to parse or sanitize, an exception raised in _tick
\* while the request is issued) leaves the in-flight flag false.
C12_EveryEndingClearsFlag ==
    [][outcome'.op \in (GoodPollOps \cup FailedPollOps) => ~req_in_flight']_vars

\* C13: with the same raw value v in every snapshot, each pass moves the
\* displayed value of a load channel by alpha = 0.35 of its remaining gap to v,
\* which is what makes it converge to v.
C13_EachPassClosesGap ==
    [][outcome'.op = "success" =>
         \A ch \in Channels :
             LET v == LoadOf(outcome'.snap, ch)
             IN  IsNumber(v) =>
                   /\ gauge'[ch] = Smooth(gauge[ch], v.v)
                   /\ Toward(gauge[ch], gauge'[ch], v.v)]_vars

\* C14: after a pass whose snapshot carries a GPU temperature, the colour of the
\* GPU gauge is the ramp colour of that temperature, whether the GPU load
\* crossed the dead-band or not and whether the snapshot has a GPU load or not.
C14_GpuColourFollowsTemperature ==
    [][(outcome'.op = "success" /\ IsNumber(outcome'.snap.gpu.temp_c)) =>
         \E under \in BOOLEAN :
             gpu_color' = color_from_temperature(outcome'.snap.gpu.temp_c, under)]_vars

\* C15: the dead-band gate is strict.  In a pass, a channel whose smoothed value
\* differs from the rendered value by more than epsilon gets that value in its
\* gauge and in its cache; a channel whose smoothed value differs by epsilon or
\* less, exactly epsilon included, keeps both.
C15_DeadBandStrict ==
    [][outcome'.op = "success" =>
         \A ch \in Channels :
             LET v == LoadOf(outcome'.snap, ch)
                 new_val == Smooth(display_cache[ch], v.v)
                 diff == AbsInt(new_val - gauge[ch])
             IN  IF IsNumber(v) /\ diff > settings.update_epsilon
                 THEN gauge'[ch] = new_val /\ display_cache'[ch] = new_val
                 ELSE gauge'[ch] = gauge[ch] /\ display_cache'[ch] = display_cache[ch]]_vars

\* epsilon 0.7, first pass: the CPU at 2.0 smooths to 0.70, exactly epsilon away
\* from the 0 shown, and is held; the GPU at 2.03 smooths to 0.71 and is shown
C15_Witness ==
    /\ outcome.op = "success" /\ polls = 1
    /\ settings.update_epsilon = 70
    /\ outcome.snap.cpu.load = Num(200) /\ outcome.snap.gpu.load = Num(203)
    /\ Smooth(0, 200) = settings.update_epsilon
    /\ gauge.cpu = 0 /\ display_cache.cpu = 0
    /\ gauge.gpu = 71 /\ display_cache.gpu = 71

\* C16: for the RAM and the VRAM channel of a snapshot sanitize_metrics returns,
\* a used_pct that was supplied as a number is kept, clamped to 0..100; a used_pct
\* that was not is derived as clamp(used_gb / total_gb * 100, 0, 100) when used_gb
\* and total_gb are both numbers and total_gb > 0; in every other case used_pct
\* is absent, not 0.
C16_UsedPctDerivedWhenAbsent ==
    (sanOut.done /\ ~sanOut.raised) =>
        \A ch \in {"ram", "vram"} :
            LET raw == ChanOf(svcIn, ch, NoMemChan)
                p == fnum(raw.used_pct)
                u == fnum(raw.used_gb)
                t == fnum(raw.total_gb)
                derivable == u # None /\ t # None /\ FloatLt(Num(0), t)
                o == sanOut.out[ch].used_pct
            IN  /\ p # None => o = ClampPct(p)
                /\ (p = None /\ derivable) => (o # None /\ o = ClampPct(PctOf(u, t)))
                /\ (p = None /\ derivable /\ u.k = "num" /\ t.k = "num" /\ u.v >= 0) =>
                       o = Num(MinInt(100 * Scale, (u.v * 100 * Scale) \div t.v))
                /\ (p = None /\ ~derivable) => o = None

\* used_gb = 6.0 and total_gb = 16.0 without used_pct give 37.5, while the VRAM
\* channel, which has no field at all, keeps used_pct absent
C16_Witness ==
    /\ sanOut.done /\ ~sanOut.raised
    /\ svcIn.ram = MemChan("dict", Missing, Number(600), Number(1600))
    /\ sanOut.out.ram.used_pct = Num(3750)
    /\ svcIn.vram = NoMemChan
    /\ sanOut.out.vram.used_pct = None

\* C17: the ramp colour of a temperature t is RGB(34,197,94) for t <= 0,
\* RGB(245,158,11) for t = max_temp * 2/3 and RGB(245,68,11) for t >= max_temp;
\* for a t in between, each channel is the linear interpolation of its segment
\* (to within one unit); and every channel is within 0..255.
C17_RampIsTwoSegmentInterpolation ==
    outcome.op = "ramp" =>
        LET t == fnum(svcIn.gpu.temp_c)
            c == gpu_color
            Near(ch, num, den) == AbsInt(ch * den - num) <= den
        IN  /\ \A i \in 1..3 : 0 <= c[i] /\ c[i] <= 255
            /\ t.k = "num" =>
                  /\ t.v <= 0 => c = <<34, 197, 94>>
                  /\ 3 * t.v = 2 * max_temp => c = <<245, 158, 11>>
                  /\ t.v >= max_temp => c = <<245, 68, 11>>
                  /\ (0 < t.v /\ 3 * t.v < 2 * max_temp) =>
                        /\ Near(c[1], 34 * 2 * max_temp + (245 - 34) * 3 * t.v, 2 * max_temp)
                        /\ Near(c[2], 197 * 2 * max_temp - (197 - 158) * 3 * t.v, 2 * max_temp)
                        /\ Near(c[3], 94 * 2 * max_temp - (94 - 11) * 3 * t.v, 2 * max_temp)
                  /\ (2 * max_temp < 3 * t.v /\ t.v < max_temp) =>
                        /\ c[1] = 245 /\ c[3] = 11
                        /\ Near(c[2], 158 * max_temp - (158 - 68) * (3 * t.v - 2 * max_temp),
                                max_temp)

====
